---- MODULE Spec2Model ----
(***************************************************************************)
(* Hero roster service (src/go/hero.go, and its earlier variant            *)
(* src/unnamed/part_000).  One map[string]hero is created in main and      *)
(* circulates through the capacity-1 channel heroMapChannel; every HTTP    *)
(* handler runs on its own goroutine, receives the map (or times out       *)
(* after three seconds), works on it and sends it back.                    *)
(***************************************************************************)
EXTENDS Integers, Sequences, FiniteSets, TLC

VARIABLES
    variant,            \* which build runs: "ge" = hero.go, "eq" = part_000
    roster,             \* contents of the one map object made in main
    heroMapChannel,     \* the channel's buffer: a sequence of map references
    pc,                 \* per goroutine: position in its handler
    req,                \* per goroutine: the decoded request
    mapOfHeroes,        \* per goroutine: the handler's local map reference
    hero,               \* per goroutine: the handler's local hero value
    heroesForCalamity,  \* per goroutine: handleCalamity's local slice
    outcome,            \* per goroutine: the response written
    before,             \* per goroutine: the roster as it was when received
    initial,            \* the roster the run started from
    issued              \* number of requests accepted so far

vars == <<variant, roster, heroMapChannel, pc, req, mapOfHeroes, hero,
          heroesForCalamity, outcome, before, initial, issued>>

-----------------------------------------------------------------------------
(* Bounds of the model *)

NumProcs == 2          \* goroutines serving requests at the same time
MaxRequests == 3       \* requests accepted in one run

(* Program constants *)

maxExhaustion == 10
ChannelCapacity == 1

Procs == 1..NumProcs
HeroNames == {"a"}
Variants == {"ge", "eq"}

Nil == "nil"
MapRef == "map"        \* the reference to the one map made in main
NoName == ""

OpNames == {"heroMake", "heroGet", "heroRest", "heroKill", "heroRetire",
            "handleCalamity"}

-----------------------------------------------------------------------------
(* Data: the hero and calamity structs, the map *)

\* var hero hero: Go's zero value
NoHero == [PowerLevel |-> 0, Exhaustion |-> 0, Name |-> NoName, Alive |-> FALSE]

\* A hero struct
Hero(name, powerLevel, exhaustion, alive) ==
    [PowerLevel |-> powerLevel, Exhaustion |-> exhaustion, Name |-> name,
     Alive |-> alive]

\* var calamity calamity: Go's zero value
NoCalamity == [PowerLevel |-> 0, Heroes |-> << >>]

\* make(map[string]hero)
EmptyMap == [n \in {} |-> NoHero]

\* mapOfHeroes[name] = h
MapPut(m, name, h) ==
    [n \in (DOMAIN m) \cup {name} |-> IF n = name THEN h ELSE m[n]]

\* delete(mapOfHeroes, name)
MapDelete(m, name) == [n \in (DOMAIN m) \ {name} |-> m[n]]

\* json.Unmarshal(content, &hero): a field the body does not carry keeps
\* its zero value; the untagged field Alive is matched by its own name.
UnmarshalHero(body) ==
    [PowerLevel |-> IF "PowerLevel" \in DOMAIN body THEN body.PowerLevel ELSE 0,
     Exhaustion |-> IF "Exhaustion" \in DOMAIN body THEN body.Exhaustion ELSE 0,
     Name       |-> IF "Name" \in DOMAIN body THEN body.Name ELSE NoName,
     Alive      |-> IF "Alive" \in DOMAIN body THEN body.Alive ELSE FALSE]

\* json.Unmarshal(content, &calamity)
\* json.Marshal(hero): every field of the struct is exported and goes into
\* the object under its own name
MarshalHero(h) ==
    [PowerLevel |-> h.PowerLevel, Exhaustion |-> h.Exhaustion,
     Name |-> h.Name, Alive |-> h.Alive]

UnmarshalCalamity(body) ==
    [PowerLevel |-> IF "PowerLevel" \in DOMAIN body THEN body.PowerLevel ELSE 0,
     Heroes     |-> IF "Heroes" \in DOMAIN body THEN body.Heroes ELSE << >>]

\* The responses, by kind; name is the hero an error message quotes.
Outcome(kind, name) == [kind |-> kind, name |-> name]
NoOutcome == Outcome("none", NoName)
StatusOK == Outcome("OK", NoName)
resourceNotAvailableErr == Outcome("ResourceUnavailable", NoName)

-----------------------------------------------------------------------------
(* Request payloads the model draws *)

\* Bodies of POST /hero.  A body may carry Exhaustion and Alive as well:
\* the hero struct decodes both.
MakeBodies ==
    {[Name |-> "a", PowerLevel |-> 1],
     [Name |-> "a", PowerLevel |-> 1, Exhaustion |-> maxExhaustion - 1],
     [Name |-> "a", PowerLevel |-> 1, Exhaustion |-> maxExhaustion],
     [Name |-> "a", PowerLevel |-> 1, Exhaustion |-> -1, Alive |-> FALSE]}

\* Bodies of POST /calamity
CalamityBodies ==
    {[PowerLevel |-> 1, Heroes |-> << >>],
     [PowerLevel |-> 1, Heroes |-> <<"a">>],
     [PowerLevel |-> 2, Heroes |-> <<"a">>]}

-----------------------------------------------------------------------------
(* handleCalamity's pure parts *)

\* hero.Exhaustion++; if hero.Exhaustion == maxExhaustion { hero.Alive = false }
Exhaust(h) ==
    [h EXCEPT !.Exhaustion = h.Exhaustion + 1,
              !.Alive = IF h.Exhaustion + 1 = maxExhaustion THEN FALSE ELSE h.Alive]

\* hero.go: the loop of compileHeroData from index i on.  The heroes are
\* copied off the map as they are.
RECURSIVE compileLoop(_, _, _, _, _)
compileLoop(names, m, i, total, heroes) ==
    IF i > Len(names)
    THEN [totalPowerLevel |-> total, heroesForCalamity |-> heroes,
          err |-> NoOutcome]
    ELSE IF names[i] \notin DOMAIN m
    THEN [totalPowerLevel |-> 0, heroesForCalamity |-> << >>,
          err |-> Outcome("UnknownHero", names[i])]
    ELSE IF ~m[names[i]].Alive
    THEN [totalPowerLevel |-> 0, heroesForCalamity |-> << >>,
          err |-> Outcome("DeadHero", names[i])]
    ELSE compileLoop(names, m, i + 1, total + m[names[i]].PowerLevel,
                     Append(heroes, m[names[i]]))

\* compileHeroData looking for absent names in the whole list before it
\* looks at any hero.
compileHeroDataAbsentFirst(names, m) ==
    IF \E i \in 1..Len(names) : names[i] \notin DOMAIN m
    THEN [totalPowerLevel |-> 0, heroesForCalamity |-> << >>,
          err |-> Outcome("UnknownHero",
                          names[CHOOSE i \in 1..Len(names) :
                                    /\ names[i] \notin DOMAIN m
                                    /\ \A j \in 1..(i - 1) : names[j] \in DOMAIN m])]
    ELSE compileLoop(names, m, 1, 0, << >>)

compileHeroData(names, m) == compileLoop(names, m, 1, 0, << >>)

\* part_000: the loop inside handleCalamity.  Each local copy is exhausted
\* before it is appended; the map is not written here.
RECURSIVE inlineLoop(_, _, _, _, _)
inlineLoop(names, m, i, total, heroes) ==
    IF i > Len(names)
    THEN [totalPowerLevel |-> total, heroesForCalamity |-> heroes,
          err |-> NoOutcome]
    ELSE IF names[i] \notin DOMAIN m
    THEN [totalPowerLevel |-> total, heroesForCalamity |-> heroes,
          err |-> Outcome("UnknownHero", names[i])]
    ELSE IF m[names[i]].Alive = FALSE
    THEN [totalPowerLevel |-> total, heroesForCalamity |-> heroes,
          err |-> Outcome("DeadHero", names[i])]
    ELSE inlineLoop(names, m, i + 1, total + m[names[i]].PowerLevel,
                    Append(heroes, Exhaust(m[names[i]])))

compileInline(names, m) == inlineLoop(names, m, 1, 0, << >>)

\* The calamity's success rule: hero.go fails when calamity.PowerLevel >
\* totalPowerLevel, part_000 succeeds when the two are equal.
PowerSuffices(v, calamityPower, totalPowerLevel) ==
    IF v = "ge" THEN ~(calamityPower > totalPowerLevel)
                ELSE calamityPower = totalPowerLevel

\* The write loop ranging over the map instead of the heroes compiled: every
\* alive hero of the roster is exhausted.
writeBackExhaustedAll(heroes, m, i) ==
    IF i > Len(heroes) THEN m
    ELSE [n \in DOMAIN m |-> IF m[n].Alive THEN Exhaust(m[n]) ELSE m[n]]

\* hero.go: for _, hero := range heroesForCalamity { exhaust; write back }
RECURSIVE writeBackExhausted(_, _, _)
writeBackExhausted(heroes, m, i) ==
    IF i > Len(heroes) THEN m
    ELSE writeBackExhausted(heroes,
                            MapPut(m, heroes[i].Name, Exhaust(heroes[i])), i + 1)

\* part_000: for _, hero := range heroesForCalamity { write back }
RECURSIVE writeBack(_, _, _)
writeBack(heroes, m, i) ==
    IF i > Len(heroes) THEN m
    ELSE writeBack(heroes, MapPut(m, heroes[i].Name, heroes[i]), i + 1)

\* What the handler holding the map reads, decides and writes, by variant
Compiled(v, names, m) ==
    IF v = "ge" THEN compileHeroData(names, m) ELSE compileInline(names, m)

Written(v, heroes, m) ==
    IF v = "ge" THEN writeBackExhausted(heroes, m, 1) ELSE writeBack(heroes, m, 1)

-----------------------------------------------------------------------------
(* State after main has made the channel and put the empty map into it *)

Request(op, name, calamity) == [op |-> op, name |-> name, calamity |-> calamity]
NoRequest == Request("none", NoName, NoCalamity)

InitWith(m, v) ==
    /\ variant = v
    /\ roster = m
    /\ initial = m
    /\ heroMapChannel = <<MapRef>>
    /\ pc = [p \in Procs |-> "idle"]
    /\ req = [p \in Procs |-> NoRequest]
    /\ mapOfHeroes = [p \in Procs |-> Nil]
    /\ hero = [p \in Procs |-> NoHero]
    /\ heroesForCalamity = [p \in Procs |-> << >>]
    /\ outcome = [p \in Procs |-> NoOutcome]
    /\ before = [p \in Procs |-> EmptyMap]
    /\ issued = 0

Init == InitWith(EmptyMap, "ge")

-----------------------------------------------------------------------------
(* A request arrives: the router hands it to its handler on a goroutine of   *)
(* its own, the handler decodes it.                                          *)

Accept(p, r, h, nextpc, out) ==
    /\ pc[p] = "idle"
    /\ issued < MaxRequests
    /\ issued' = issued + 1
    /\ req' = [req EXCEPT ![p] = r]
    /\ hero' = [hero EXCEPT ![p] = h]
    /\ pc' = [pc EXCEPT ![p] = nextpc]
    /\ outcome' = [outcome EXCEPT ![p] = out]
    /\ UNCHANGED <<variant, roster, heroMapChannel, mapOfHeroes,
                   heroesForCalamity, before, initial>>

heroMakeRequest(p, bodies) ==
    /\ pc[p] = "idle"
    /\ \E body \in bodies :
        Accept(p, Request("heroMake", NoName, NoCalamity), UnmarshalHero(body),
               "select", NoOutcome)

heroGetRequest(p, names) ==
    /\ pc[p] = "idle"
    /\ \E name \in names :
        Accept(p, Request("heroGet", name, NoCalamity), NoHero, "select", NoOutcome)

heroRestRequest(p, names) ==
    /\ pc[p] = "idle"
    /\ \E name \in names :
        Accept(p, Request("heroRest", name, NoCalamity), NoHero, "select", NoOutcome)

heroKillRequest(p, names) ==
    /\ pc[p] = "idle"
    /\ \E name \in names :
        Accept(p, Request("heroKill", name, NoCalamity), NoHero, "select", NoOutcome)

heroRetireRequest(p, names) ==
    /\ pc[p] = "idle"
    /\ \E name \in names :
        Accept(p, Request("heroRetire", name, NoCalamity), NoHero, "select", NoOutcome)

\* handleCalamity asking for the map whatever the length of the list.
handleCalamityRequestAsking(p, bodies) ==
    /\ pc[p] = "idle"
    /\ \E body \in bodies :
        Accept(p, Request("handleCalamity", NoName, UnmarshalCalamity(body)),
               NoHero, "select", NoOutcome)

\* len(calamity.Heroes) < 1 answers before the map is asked for
handleCalamityRequest(p, bodies) ==
    /\ pc[p] = "idle"
    /\ \E body \in bodies :
        LET c == UnmarshalCalamity(body) IN
        IF Len(c.Heroes) < 1
        THEN Accept(p, Request("handleCalamity", NoName, c), NoHero, "done",
                    Outcome("EmptyHeroList", NoName))
        ELSE Accept(p, Request("handleCalamity", NoName, c), NoHero, "select",
                    NoOutcome)

-----------------------------------------------------------------------------
(* attemptToGetHeroData: select { case m := <-heroMapChannel; case <-After } *)

\* The receive case with the map left in the buffer (a read that does not
\* consume).
attemptToGetHeroDataPeek(p) ==
    /\ pc[p] \in {"select", "parked"}
    /\ Len(heroMapChannel) > 0
    /\ mapOfHeroes' = [mapOfHeroes EXCEPT ![p] = Head(heroMapChannel)]
    /\ before' = [before EXCEPT ![p] = roster]
    /\ pc' = [pc EXCEPT ![p] = "held"]
    /\ UNCHANGED <<variant, roster, heroMapChannel, req, hero,
                   heroesForCalamity, outcome, initial, issued>>

\* The receive case: the map leaves the channel's buffer.
attemptToGetHeroData(p) ==
    /\ pc[p] \in {"select", "parked"}
    /\ Len(heroMapChannel) > 0
    /\ mapOfHeroes' = [mapOfHeroes EXCEPT ![p] = Head(heroMapChannel)]
    /\ heroMapChannel' = Tail(heroMapChannel)
    /\ before' = [before EXCEPT ![p] = roster]
    /\ pc' = [pc EXCEPT ![p] = "held"]
    /\ UNCHANGED <<variant, roster, req, hero, heroesForCalamity, outcome,
                   initial, issued>>

\* No case is ready: the goroutine blocks in the select.
attemptBlocks(p) ==
    /\ pc[p] = "select"
    /\ Len(heroMapChannel) = 0
    /\ pc' = [pc EXCEPT ![p] = "parked"]
    /\ UNCHANGED <<variant, roster, heroMapChannel, req, mapOfHeroes, hero,
                   heroesForCalamity, outcome, before, initial, issued>>

\* The timer case followed by a send, as on the other exit paths.
attemptTimesOutSends(p) ==
    /\ pc[p] = "parked"
    /\ mapOfHeroes' = [mapOfHeroes EXCEPT ![p] = Nil]
    /\ heroMapChannel' = Append(heroMapChannel, MapRef)
    /\ outcome' = [outcome EXCEPT ![p] = resourceNotAvailableErr]
    /\ pc' = [pc EXCEPT ![p] = "done"]
    /\ UNCHANGED <<variant, roster, req, hero, heroesForCalamity, before,
                   initial, issued>>

\* The timer case: nil is returned and the handler answers
\* resourceNotAvailableErr and returns.
attemptTimesOut(p) ==
    /\ pc[p] = "parked"
    /\ mapOfHeroes' = [mapOfHeroes EXCEPT ![p] = Nil]
    /\ outcome' = [outcome EXCEPT ![p] = resourceNotAvailableErr]
    /\ pc' = [pc EXCEPT ![p] = "done"]
    /\ UNCHANGED <<variant, roster, heroMapChannel, req, hero,
                   heroesForCalamity, before, initial, issued>>

\* heroMapChannel <- mapOfHeroes
sendMap(p) ==
    /\ pc[p] = "send"
    /\ Len(heroMapChannel) < ChannelCapacity
    /\ heroMapChannel' = Append(heroMapChannel, mapOfHeroes[p])
    /\ pc' = [pc EXCEPT ![p] = "done"]
    /\ UNCHANGED <<variant, roster, req, mapOfHeroes, hero, heroesForCalamity,
                   outcome, before, initial, issued>>

\* The handler returns; its goroutine and locals are gone.
handlerReturns(p) ==
    /\ pc[p] = "done"
    /\ pc' = [pc EXCEPT ![p] = "idle"]
    /\ req' = [req EXCEPT ![p] = NoRequest]
    /\ mapOfHeroes' = [mapOfHeroes EXCEPT ![p] = Nil]
    /\ hero' = [hero EXCEPT ![p] = NoHero]
    /\ heroesForCalamity' = [heroesForCalamity EXCEPT ![p] = << >>]
    /\ outcome' = [outcome EXCEPT ![p] = NoOutcome]
    /\ before' = [before EXCEPT ![p] = EmptyMap]
    /\ UNCHANGED <<variant, roster, heroMapChannel, initial, issued>>

-----------------------------------------------------------------------------
(* The handlers' work on the map they hold *)

\* The handler has read the map into its locals and goes on to nextpc.
Decide(p, h, nextpc, out) ==
    /\ mapOfHeroes[p] = MapRef
    /\ hero' = [hero EXCEPT ![p] = h]
    /\ pc' = [pc EXCEPT ![p] = nextpc]
    /\ outcome' = [outcome EXCEPT ![p] = out]
    /\ UNCHANGED <<variant, roster, heroMapChannel, req, mapOfHeroes,
                   heroesForCalamity, before, initial, issued>>

\* The handler has changed the map and goes on to send it back.
Store(p, h, m) ==
    /\ mapOfHeroes[p] = MapRef
    /\ hero' = [hero EXCEPT ![p] = h]
    /\ roster' = m
    /\ pc' = [pc EXCEPT ![p] = "send"]
    /\ outcome' = [outcome EXCEPT ![p] = StatusOK]
    /\ UNCHANGED <<variant, heroMapChannel, req, mapOfHeroes,
                   heroesForCalamity, before, initial, issued>>

At(p, op, where) == pc[p] = where /\ req[p].op = op

\* heroMake refusing a name only while its holder is alive.
heroMakeLookupAliveOnly(p) ==
    /\ At(p, "heroMake", "held")
    /\ LET name == hero[p].Name IN
       IF name \in DOMAIN roster /\ roster[name].Alive
       THEN Decide(p, hero[p], "send", Outcome("AlreadyExists", name))
       ELSE Decide(p, hero[p], "write", NoOutcome)

\* heroMake storing its hero without looking for the name first.
heroMakeLookupSkipped(p) ==
    /\ At(p, "heroMake", "held")
    /\ Decide(p, hero[p], "write", NoOutcome)

\* heroMake: if hero, heroExists := mapOfHeroes[hero.Name]; heroExists {...}
heroMakeLookup(p) ==
    /\ At(p, "heroMake", "held")
    /\ LET name == hero[p].Name IN
       IF name \in DOMAIN roster
       THEN IF roster[name].Alive
            THEN Decide(p, hero[p], "send", Outcome("AlreadyExists", name))
            ELSE Decide(p, hero[p], "send", Outcome("NameRetired", name))
       ELSE Decide(p, hero[p], "write", NoOutcome)

\* heroMake: hero.Alive = true; mapOfHeroes[hero.Name] = hero
heroMakeWrite(p) ==
    /\ At(p, "heroMake", "write")
    /\ LET h == [hero[p] EXCEPT !.Alive = TRUE] IN
       Store(p, h, MapPut(roster, h.Name, h))

\* heroGet reading with an index expression that stores the zero hero under
\* a name it does not find.
heroGetLookupStoring(p) ==
    /\ At(p, "heroGet", "held")
    /\ LET name == req[p].name IN
       IF name \notin DOMAIN roster
       THEN /\ mapOfHeroes[p] = MapRef
            /\ roster' = MapPut(roster, name, NoHero)
            /\ hero' = [hero EXCEPT ![p] = NoHero]
            /\ pc' = [pc EXCEPT ![p] = "send"]
            /\ outcome' = [outcome EXCEPT ![p] = Outcome("NotFound", name)]
            /\ UNCHANGED <<variant, heroMapChannel, req, mapOfHeroes,
                           heroesForCalamity, before, initial, issued>>
       ELSE Decide(p, roster[name], "send", StatusOK)

\* heroGet: hero, ok = mapOfHeroes[name]; the map goes back before the reply
heroGetLookup(p) ==
    /\ At(p, "heroGet", "held")
    /\ LET name == req[p].name IN
       IF name \notin DOMAIN roster
       THEN Decide(p, NoHero, "send", Outcome("NotFound", name))
       ELSE Decide(p, roster[name], "send", StatusOK)

\* heroRest: the three checks
heroRestLookup(p) ==
    /\ At(p, "heroRest", "held")
    /\ LET name == req[p].name IN
       IF name \notin DOMAIN roster
       THEN Decide(p, NoHero, "send", Outcome("NotFound", name))
       ELSE IF ~roster[name].Alive
       THEN Decide(p, roster[name], "send", Outcome("NotAlive", name))
       ELSE IF roster[name].Exhaustion = 0
       THEN Decide(p, roster[name], "send", Outcome("NoRestNeeded", name))
       ELSE Decide(p, roster[name], "write", NoOutcome)

\* heroRest: hero.Exhaustion--; mapOfHeroes[name] = hero
heroRestWrite(p) ==
    /\ At(p, "heroRest", "write")
    /\ LET h == [hero[p] EXCEPT !.Exhaustion = hero[p].Exhaustion - 1] IN
       Store(p, h, MapPut(roster, req[p].name, h))

\* heroKill returning on an unknown name without sending the map back.
heroKillLookupNoSend(p) ==
    /\ At(p, "heroKill", "held")
    /\ LET name == req[p].name IN
       IF name \notin DOMAIN roster
       THEN Decide(p, NoHero, "done", Outcome("NotFound", name))
       ELSE IF ~roster[name].Alive
       THEN Decide(p, roster[name], "send", Outcome("AlreadyDead", name))
       ELSE Decide(p, roster[name], "write", NoOutcome)

\* heroKill: the two checks
heroKillLookup(p) ==
    /\ At(p, "heroKill", "held")
    /\ LET name == req[p].name IN
       IF name \notin DOMAIN roster
       THEN Decide(p, NoHero, "send", Outcome("NotFound", name))
       ELSE IF ~roster[name].Alive
       THEN Decide(p, roster[name], "send", Outcome("AlreadyDead", name))
       ELSE Decide(p, roster[name], "write", NoOutcome)

\* heroKill marking the hero it kills as exhausted to the full.
heroKillWriteExhausted(p) ==
    /\ At(p, "heroKill", "write")
    /\ LET h == [hero[p] EXCEPT !.Alive = FALSE, !.Exhaustion = maxExhaustion] IN
       Store(p, h, MapPut(roster, req[p].name, h))

\* heroKill storing a new dead hero value, with no fields but Alive, under
\* the name.
heroKillWriteZeroed(p) ==
    /\ At(p, "heroKill", "write")
    /\ Store(p, NoHero, MapPut(roster, req[p].name, NoHero))

\* heroKill: hero.Alive = false; mapOfHeroes[name] = hero
heroKillWrite(p) ==
    /\ At(p, "heroKill", "write")
    /\ LET h == [hero[p] EXCEPT !.Alive = FALSE] IN
       Store(p, h, MapPut(roster, req[p].name, h))

\* heroRetire returning on a dead hero without sending the map back.
heroRetireLookupNoSend(p) ==
    /\ At(p, "heroRetire", "held")
    /\ LET name == req[p].name IN
       IF name \notin DOMAIN roster
       THEN Decide(p, NoHero, "send", Outcome("NotFound", name))
       ELSE IF ~roster[name].Alive
       THEN Decide(p, roster[name], "done", Outcome("CannotRetireDead", name))
       ELSE Decide(p, roster[name], "write", NoOutcome)

\* heroRetire deleting whatever record it finds, dead or alive.
heroRetireLookupDeadToo(p) ==
    /\ At(p, "heroRetire", "held")
    /\ LET name == req[p].name IN
       IF name \notin DOMAIN roster
       THEN Decide(p, NoHero, "send", Outcome("NotFound", name))
       ELSE Decide(p, roster[name], "write", NoOutcome)

\* heroRetire: the two checks
heroRetireLookup(p) ==
    /\ At(p, "heroRetire", "held")
    /\ LET name == req[p].name IN
       IF name \notin DOMAIN roster
       THEN Decide(p, NoHero, "send", Outcome("NotFound", name))
       ELSE IF ~roster[name].Alive
       THEN Decide(p, roster[name], "send", Outcome("CannotRetireDead", name))
       ELSE Decide(p, roster[name], "write", NoOutcome)

\* heroRetire: delete(mapOfHeroes, name)
heroRetireWrite(p) ==
    /\ At(p, "heroRetire", "write")
    /\ Store(p, hero[p], MapDelete(roster, req[p].name))

\* handleCalamity sending the map back as soon as the heroes are read, the
\* way heroGet does, and writing them afterwards.
handleCalamityCompileEarlySend(p) ==
    /\ At(p, "handleCalamity", "held")
    /\ LET c == Compiled(variant, req[p].calamity.Heroes, roster) IN
       /\ heroesForCalamity' = [heroesForCalamity EXCEPT ![p] = c.heroesForCalamity]
       /\ mapOfHeroes[p] = MapRef
       /\ heroMapChannel' = Append(heroMapChannel, mapOfHeroes[p])
       /\ pc' = [pc EXCEPT ![p] =
                    IF /\ c.err = NoOutcome
                       /\ PowerSuffices(variant, req[p].calamity.PowerLevel,
                                        c.totalPowerLevel)
                    THEN "write" ELSE "done"]
       /\ outcome' = [outcome EXCEPT ![p] =
                    IF c.err # NoOutcome THEN c.err
                    ELSE IF PowerSuffices(variant, req[p].calamity.PowerLevel,
                                          c.totalPowerLevel)
                    THEN NoOutcome
                    ELSE Outcome("InsufficientPower", NoName)]
       /\ UNCHANGED <<variant, roster, req, mapOfHeroes, hero, before,
                      initial, issued>>

\* handleCalamity writing each hero back inside the loop that reads them,
\* before the list is known to be valid and the power sufficient.
handleCalamityCompileEager(p) ==
    /\ At(p, "handleCalamity", "held")
    /\ LET c == Compiled(variant, req[p].calamity.Heroes, roster) IN
       /\ heroesForCalamity' = [heroesForCalamity EXCEPT ![p] = c.heroesForCalamity]
       /\ mapOfHeroes[p] = MapRef
       /\ roster' = writeBack(c.heroesForCalamity, roster, 1)
       /\ pc' = [pc EXCEPT ![p] =
                    IF /\ c.err = NoOutcome
                       /\ PowerSuffices(variant, req[p].calamity.PowerLevel,
                                        c.totalPowerLevel)
                    THEN "write" ELSE "send"]
       /\ outcome' = [outcome EXCEPT ![p] =
                    IF c.err # NoOutcome THEN c.err
                    ELSE IF PowerSuffices(variant, req[p].calamity.PowerLevel,
                                          c.totalPowerLevel)
                    THEN NoOutcome
                    ELSE Outcome("InsufficientPower", NoName)]
       /\ UNCHANGED <<variant, heroMapChannel, req, mapOfHeroes, hero,
                      before, initial, issued>>

\* handleCalamity: the heroes are read off the map and the power compared
handleCalamityCompile(p) ==
    /\ At(p, "handleCalamity", "held")
    /\ LET c == Compiled(variant, req[p].calamity.Heroes, roster) IN
       /\ heroesForCalamity' = [heroesForCalamity EXCEPT ![p] = c.heroesForCalamity]
       /\ mapOfHeroes[p] = MapRef
       /\ pc' = [pc EXCEPT ![p] =
                    IF /\ c.err = NoOutcome
                       /\ PowerSuffices(variant, req[p].calamity.PowerLevel,
                                        c.totalPowerLevel)
                    THEN "write" ELSE "send"]
       /\ outcome' = [outcome EXCEPT ![p] =
                    IF c.err # NoOutcome THEN c.err
                    ELSE IF PowerSuffices(variant, req[p].calamity.PowerLevel,
                                          c.totalPowerLevel)
                    THEN NoOutcome
                    ELSE Outcome("InsufficientPower", NoName)]
       /\ UNCHANGED <<variant, roster, heroMapChannel, req, mapOfHeroes, hero,
                      before, initial, issued>>

\* handleCalamity: the heroes are written back
handleCalamityWrite(p) ==
    /\ At(p, "handleCalamity", "write")
    /\ Store(p, hero[p], Written(variant, heroesForCalamity[p], roster))

-----------------------------------------------------------------------------
(* The service: any request may arrive at any idle goroutine *)

Arrive(p) ==
    \/ heroMakeRequest(p, MakeBodies)
    \/ heroGetRequest(p, HeroNames)
    \/ heroRestRequest(p, HeroNames)
    \/ heroKillRequest(p, HeroNames)
    \/ heroRetireRequest(p, HeroNames)
    \/ handleCalamityRequest(p, CalamityBodies)

Handle(p) ==
    \/ attemptToGetHeroData(p)
    \/ attemptBlocks(p)
    \/ attemptTimesOut(p)
    \/ heroMakeLookup(p)
    \/ heroMakeWrite(p)
    \/ heroGetLookup(p)
    \/ heroRestLookup(p)
    \/ heroRestWrite(p)
    \/ heroKillLookup(p)
    \/ heroKillWrite(p)
    \/ heroRetireLookup(p)
    \/ heroRetireWrite(p)
    \/ handleCalamityCompile(p)
    \/ handleCalamityWrite(p)
    \/ sendMap(p)

Next == \E p \in Procs : Arrive(p) \/ Handle(p) \/ handlerReturns(p)

Spec == Init /\ [][Next]_vars

-----------------------------------------------------------------------------
(* Concurrent calamities: the service in either variant, with a roster of   *)
(* earlier requests' making, serving one calamity per goroutine.            *)

\* Rosters that creates, calamities and kills lead to: "a" alive, fresh or
\* one calamity from death; "b" absent, alive or killed.
CalRosters ==
    {MapPut(EmptyMap, "a", Hero("a", 1, e, TRUE)) : e \in {0, maxExhaustion - 1}}
    \cup {MapPut(MapPut(EmptyMap, "a", Hero("a", 1, e, TRUE)), "b", hb) :
            e \in {0, maxExhaustion - 1},
            hb \in {Hero("b", 2, maxExhaustion - 2, TRUE), Hero("b", 2, 3, FALSE)}}

CalamityRuns ==
    {[PowerLevel |-> 1, Heroes |-> << >>],
     [PowerLevel |-> 1, Heroes |-> <<"a">>],
     [PowerLevel |-> 3, Heroes |-> <<"a">>],
     [PowerLevel |-> 3, Heroes |-> <<"a", "b">>],
     [PowerLevel |-> 1, Heroes |-> <<"b", "a">>],
     [PowerLevel |-> 2, Heroes |-> <<"a", "a">>]}

InitCal == \E m \in CalRosters, v \in Variants : InitWith(m, v)

NextCal ==
    \E p \in Procs :
        \/ handleCalamityRequest(p, CalamityRuns)
        \/ attemptToGetHeroData(p)
        \/ attemptBlocks(p)
        \/ attemptTimesOut(p)
        \/ handleCalamityCompile(p)
        \/ handleCalamityWrite(p)
        \/ sendMap(p)

SpecCal == InitCal /\ [][NextCal]_vars

\* handleCalamity run from its first line to its last with nothing in
\* between: the roster it leaves and the response it writes.
handleCalamityAlone(v, c, m) ==
    LET r == Compiled(v, c.Heroes, m) IN
    IF Len(c.Heroes) < 1
    THEN [roster |-> m, outcome |-> Outcome("EmptyHeroList", NoName)]
    ELSE IF r.err # NoOutcome
    THEN [roster |-> m, outcome |-> r.err]
    ELSE IF ~PowerSuffices(v, c.PowerLevel, r.totalPowerLevel)
    THEN [roster |-> m, outcome |-> Outcome("InsufficientPower", NoName)]
    ELSE [roster |-> Written(v, r.heroesForCalamity, m), outcome |-> StatusOK]

-----------------------------------------------------------------------------
(* The service under the scheduler: one request per goroutine, on a roster  *)
(* of earlier requests' making; a handler that can take a step takes one    *)
(* (a runnable goroutine is run, a timer that is due fires).                 *)

\* Rosters that a create, a calamity and a kill lead to
FairRosters ==
    {EmptyMap,
     MapPut(EmptyMap, "a", Hero("a", 1, 1, TRUE)),
     MapPut(EmptyMap, "a", Hero("a", 1, 0, FALSE))}

InitFair == \E m \in FairRosters : InitWith(m, "ge")

FairMakeBodies == {[Name |-> "a", PowerLevel |-> 1]}

FairCalamityBodies ==
    {[PowerLevel |-> 1, Heroes |-> << >>],
     [PowerLevel |-> 1, Heroes |-> <<"a">>]}

ArriveFair(p) ==
    \/ heroMakeRequest(p, FairMakeBodies)
    \/ heroGetRequest(p, HeroNames)
    \/ heroRestRequest(p, HeroNames)
    \/ heroKillRequest(p, HeroNames)
    \/ heroRetireRequest(p, HeroNames)
    \/ handleCalamityRequest(p, FairCalamityBodies)

NextFair == \E p \in Procs : ArriveFair(p) \/ Handle(p)

FairSpec ==
    InitFair /\ [][NextFair]_vars /\ \A p \in Procs : WF_vars(Handle(p))

-----------------------------------------------------------------------------
(* Properties *)

\* p has received the map from heroMapChannel and not yet sent it back
Holds(p) == pc[p] \in {"held", "write", "send"}

Holders == {p \in Procs : Holds(p)}

\* p's own step: every action moves its goroutine's position
Steps(p) == pc'[p] # pc[p]

Dead(m) == {n \in DOMAIN m : ~m[n].Alive}

\* C1: mutual exclusion -- in every reachable state at most one request
\* holds the roster map, so no two requests read or write it at once.
C1_MutualExclusion ==
    \A p, q \in Procs : Holds(p) /\ Holds(q) => p = q

C1_Witness ==
    \E p, q \in Procs :
        /\ p # q
        /\ pc[p] = "write"
        /\ pc[q] = "parked"

\* C2: acquire/release symmetry -- the map tokens in the channel and in
\* handlers' hands number exactly one, a handler about to send always finds
\* room in the channel, and a request that never received the map is never
\* in a position to use or send it.
C2_OneToken ==
    /\ Len(heroMapChannel) + Cardinality(Holders) = 1
    /\ \A p \in Procs :
        /\ pc[p] = "send" => Len(heroMapChannel) < ChannelCapacity
        /\ Holds(p) => mapOfHeroes[p] = MapRef

C2_Witness ==
    \E p \in Procs :
        /\ pc[p] = "done"
        /\ req[p].op = "heroRetire"
        /\ outcome[p].kind = "CannotRetireDead"
        /\ heroMapChannel = <<MapRef>>

\* C4: timeout outcome -- a request that answers ResourceUnavailable never
\* received the map, and no step of a request that is without the map
\* changes the roster or the channel.
C4_TimeoutLeavesNoTrace ==
    /\ [](\A p \in Procs :
            outcome[p] = resourceNotAvailableErr =>
                pc[p] = "done" /\ mapOfHeroes[p] = Nil)
    /\ [][\A p \in Procs :
            /\ pc[p] = "parked" /\ pc'[p] = "done" =>
                  outcome'[p] = resourceNotAvailableErr
            /\ Steps(p) /\ mapOfHeroes'[p] = Nil =>
                  roster' = roster /\ heroMapChannel' = heroMapChannel]_vars

C4_Witness ==
    \E p, q \in Procs :
        /\ outcome[p] = resourceNotAvailableErr
        /\ req[p].op = "handleCalamity"
        /\ Holds(q)
        /\ req[q].op = "heroMake"

\* C5: no request hangs -- under fair scheduling every request in flight
\* gets its outcome, every holder of the map gives it back, and the map is
\* in the channel again and again.
C5_NoRequestHangs ==
    /\ \A p \in Procs : (pc[p] \notin {"idle", "done"}) ~> (pc[p] = "done")
    /\ \A p \in Procs : Holds(p) ~> (~Holds(p))
    /\ []<>(Len(heroMapChannel) = 1)

C5_Witness ==
    \E p, q \in Procs :
        /\ p # q
        /\ pc[p] = "done" /\ outcome[p] = resourceNotAvailableErr
        /\ pc[q] = "done" /\ outcome[q] = StatusOK
        /\ heroMapChannel = <<MapRef>>

\* C7: permanent name retirement -- a record that is dead stays in the
\* roster, dead, over every step, and a create that received the map while
\* its name was held by a dead record answers NameRetired and has written
\* nothing.
C7_NameRetiredForever ==
    /\ [][Dead(roster) \subseteq Dead(roster')]_vars
    /\ [](\A p \in Procs :
            /\ req[p].op = "heroMake"
            /\ pc[p] \in {"write", "send"}
            /\ hero[p].Name \in Dead(before[p])
            => /\ pc[p] = "send"
               /\ outcome[p] = Outcome("NameRetired", hero[p].Name)
               /\ roster = before[p])

C7_Witness ==
    \E p \in Procs :
        /\ At(p, "heroMake", "send")
        /\ outcome[p].kind = "NameRetired"
        /\ roster[hero[p].Name].Exhaustion = maxExhaustion
        /\ roster[hero[p].Name].PowerLevel = 1

\* C8: create -- a create that held the map succeeded exactly when its name
\* was absent; on success the record is alive with exhaustion 0 and the
\* given power level; on a name held by an alive hero the outcome is
\* AlreadyExists, by a dead hero NameRetired, the roster unchanged.
C8_CreateContract ==
    \A p \in Procs :
        At(p, "heroMake", "send") =>
            LET name == hero[p].Name IN
            /\ outcome[p] = StatusOK <=> name \notin DOMAIN before[p]
            /\ outcome[p] = StatusOK =>
                  /\ name \in DOMAIN roster
                  /\ roster[name].Alive
                  /\ roster[name].Exhaustion = 0
                  /\ roster[name].PowerLevel = hero[p].PowerLevel
            /\ name \in DOMAIN before[p] =>
                  /\ roster = before[p]
                  /\ outcome[p].kind = IF before[p][name].Alive
                                       THEN "AlreadyExists" ELSE "NameRetired"

\* C9: hero invariant -- every record of the roster has its exhaustion in
\* 0..maxExhaustion, and is dead when its exhaustion is maxExhaustion.
C9_HeroInvariant ==
    \A n \in DOMAIN roster :
        /\ 0 <= roster[n].Exhaustion
        /\ roster[n].Exhaustion <= maxExhaustion
        /\ roster[n].Exhaustion = maxExhaustion => ~roster[n].Alive

\* C10: exhaustion bounds per transition -- a rest that succeeded leaves
\* exhaustion at 0 or more, a calamity that succeeded leaves every named
\* hero at maxExhaustion or less, and when the map is back in the channel
\* no alive record has exhaustion maxExhaustion.
C10_ExhaustionBounds ==
    /\ \A p \in Procs :
        /\ At(p, "heroRest", "send") /\ outcome[p] = StatusOK =>
              roster[req[p].name].Exhaustion >= 0
        /\ At(p, "handleCalamity", "send") /\ outcome[p] = StatusOK =>
              \A i \in 1..Len(req[p].calamity.Heroes) :
                  roster[req[p].calamity.Heroes[i]].Exhaustion <= maxExhaustion
    /\ Len(heroMapChannel) = 1 =>
          \A n \in DOMAIN roster :
              roster[n].Exhaustion = maxExhaustion => ~roster[n].Alive

\* The orders in which the requests of S can be run one after the other
Orders(S) ==
    {o \in [1..Cardinality(S) -> S] :
        \A i, j \in 1..Cardinality(S) : o[i] = o[j] => i = j}

\* The calamities of order, from its i-th on, run one after the other on m:
\* the roster left, and whether every response is the one its request got.
RECURSIVE SerialRun(_, _, _)
SerialRun(order, i, m) ==
    IF i > Len(order) THEN [roster |-> m, agrees |-> TRUE]
    ELSE LET r == handleCalamityAlone(variant, req[order[i]].calamity, m) IN
         IF r.outcome # outcome[order[i]]
         THEN [roster |-> m, agrees |-> FALSE]
         ELSE SerialRun(order, i + 1, r.roster)

\* The calamities that are through with the map (or never needed it)
Completed ==
    {p \in Procs : /\ pc[p] \in {"send", "done"}
                   /\ outcome[p] # resourceNotAvailableErr}

\* C3: linearizability of calamities -- in every reachable state of
\* concurrent calamities, the roster and the responses of the calamities
\* that are through are those of running these calamities one after the
\* other in some order.
C3_CalamitiesLinearizable ==
    \E order \in Orders(Completed) :
        LET r == SerialRun(order, 1, initial) IN
        r.agrees /\ r.roster = roster

C3_Witness ==
    /\ \A p \in Procs : pc[p] = "done" /\ outcome[p] = StatusOK
    /\ \E p, q \in Procs : req[p].calamity.Heroes = <<"a", "b">>
                        /\ req[q].calamity.Heroes = <<"b", "a">>
    /\ roster["a"].Exhaustion = initial["a"].Exhaustion + NumProcs
    /\ ~roster["b"].Alive

\* C6: calamity atomicity -- a calamity that answers a failure has, when it
\* sends the map back, left the roster as it received it, and the step on
\* which a failing calamity is through (empty list, timeout, send) changes
\* no record; in both variants.
C6_CalamityAtomic ==
    /\ [](\A p \in Procs :
            At(p, "handleCalamity", "send") /\ outcome[p] # StatusOK =>
                roster = before[p])
    /\ [][\A p \in Procs :
            Steps(p) /\ pc'[p] = "done" /\ outcome'[p] # StatusOK =>
                roster' = roster]_vars

C6_Witness ==
    \E p \in Procs :
        /\ variant = "eq"
        /\ At(p, "handleCalamity", "send")
        /\ outcome[p] = Outcome("DeadHero", "b")
        /\ Len(heroesForCalamity[p]) = 1
        /\ heroesForCalamity[p][1].Exhaustion = roster["a"].Exhaustion + 1
        /\ roster = before[p]

-----------------------------------------------------------------------------
(* One request after the other: the service serving each request to its     *)
(* end before the next arrives, in either variant, on a roster of earlier   *)
(* requests' making, with two hero names and bodies of every shape.         *)

SeqNames == {"a", "b"}

\* Rosters that creates, calamities, rests and kills lead to
SeqRosters ==
    {[n \in S |-> f[n]] :
        S \in SUBSET SeqNames,
        f \in [a : {Hero("a", 1, 0, TRUE), Hero("a", 1, maxExhaustion - 3, TRUE),
                    Hero("a", 1, 0, FALSE)},
               b : {Hero("b", 2, maxExhaustion - 1, TRUE), Hero("b", 2, 3, FALSE)}]}

\* Create bodies: complete ones, ones with an "Exhaustion" member, and ones
\* that lack "Name" or "PowerLevel"; every name given is non-empty and every
\* power level given is positive
SeqMakeBodies ==
    {[Name |-> "a", PowerLevel |-> 2],
     [Name |-> "b", PowerLevel |-> 1],
     [Name |-> "a", PowerLevel |-> 1, Exhaustion |-> -1],
     [Name |-> "b", PowerLevel |-> 1, Exhaustion |-> maxExhaustion],
     [PowerLevel |-> 1],
     [Name |-> "a"]}

SeqCalamityBodies ==
    {[PowerLevel |-> pl, Heroes |-> hs] :
        pl \in {1, 2, 3},
        hs \in {<<>>, <<"a">>, <<"b">>, <<"a", "b">>, <<"b", "a">>, <<"a", "a">>}}

InitSeq ==
    \E m \in SeqRosters, v \in Variants : InitWith(m, v)

ArriveSeq(p) ==
    \/ heroMakeRequest(p, SeqMakeBodies)
    \/ heroGetRequest(p, SeqNames)
    \/ heroRestRequest(p, SeqNames)
    \/ heroKillRequest(p, SeqNames)
    \/ heroRetireRequest(p, SeqNames)
    \/ handleCalamityRequest(p, SeqCalamityBodies)

\* The channel is never empty when the one request in flight reaches its
\* select, so the receive is the only case that fires
NextSeq ==
    \E p \in {1} :
        \/ ArriveSeq(p)
        \/ attemptToGetHeroData(p)
        \/ heroMakeLookup(p) \/ heroMakeWrite(p)
        \/ heroGetLookup(p)
        \/ heroRestLookup(p) \/ heroRestWrite(p)
        \/ heroKillLookup(p) \/ heroKillWrite(p)
        \/ heroRetireLookup(p) \/ heroRetireWrite(p)
        \/ handleCalamityCompile(p) \/ handleCalamityWrite(p)
        \/ sendMap(p)
        \/ handlerReturns(p)

SpecSeq == InitSeq /\ [][NextSeq]_vars

-----------------------------------------------------------------------------
(* Calamity after calamity: the service in either variant serving one       *)
(* calamity after the other to heroes that start fresh, for as many         *)
(* calamities as it takes to exhaust a hero and one more.                   *)

CalamitiesInARow == maxExhaustion + 1

\* Heroes "a" and "b" as POST /hero makes them; "b" also as a body with an
\* "Exhaustion" member makes it
TenRosters ==
    {[n \in SeqNames |-> IF n = "a" THEN Hero("a", 1, 0, TRUE) ELSE b] :
        b \in {Hero("b", 2, 0, TRUE), Hero("b", 2, maxExhaustion, TRUE)}}

TenCalamityBodies ==
    {[PowerLevel |-> pl, Heroes |-> hs] :
        pl \in {1, 2, 3},
        hs \in {<<"a">>, <<"b">>, <<"a", "b">>, <<"a", "a">>}}

InitTen ==
    \E m \in TenRosters, v \in Variants : InitWith(m, v)

\* A calamity arrives, as in handleCalamityRequest, for as long as fewer than
\* CalamitiesInARow have
handleCalamityInARow(p, bodies) ==
    /\ pc[p] = "idle"
    /\ issued < CalamitiesInARow
    /\ \E body \in bodies :
        LET c == UnmarshalCalamity(body) IN
        /\ issued' = issued + 1
        /\ req' = [req EXCEPT ![p] = Request("handleCalamity", NoName, c)]
        /\ hero' = [hero EXCEPT ![p] = NoHero]
        /\ pc' = [pc EXCEPT ![p] = IF Len(c.Heroes) < 1 THEN "done" ELSE "select"]
        /\ outcome' = [outcome EXCEPT ![p] =
                          IF Len(c.Heroes) < 1 THEN Outcome("EmptyHeroList", NoName)
                          ELSE NoOutcome]
        /\ UNCHANGED <<variant, roster, heroMapChannel, mapOfHeroes,
                       heroesForCalamity, before, initial>>

NextTen ==
    \E p \in {1} :
        \/ handleCalamityInARow(p, TenCalamityBodies)
        \/ attemptToGetHeroData(p)
        \/ handleCalamityCompile(p)
        \/ handleCalamityWrite(p)
        \/ sendMap(p)
        \/ handlerReturns(p)

SpecTen == InitTen /\ [][NextTen]_vars

-----------------------------------------------------------------------------
(* Concurrent creates of one name: the service with an empty roster, one    *)
(* create of the name "a" arriving at each goroutine, with a power level of *)
(* its own.                                                                 *)

RaceMakeBodies == {[Name |-> "a", PowerLevel |-> pl] : pl \in {1, 2, 3}}

InitRace == InitWith(EmptyMap, "ge")

NextRace ==
    \E p \in Procs :
        \/ heroMakeRequest(p, RaceMakeBodies)
        \/ attemptToGetHeroData(p)
        \/ attemptBlocks(p)
        \/ attemptTimesOut(p)
        \/ heroMakeLookup(p)
        \/ heroMakeWrite(p)
        \/ sendMap(p)

SpecRace == InitRace /\ [][NextRace]_vars

-----------------------------------------------------------------------------
(* The two variants side by side: what a handler of either variant leaves   *)
(* and answers when it runs from its first line to its last on a roster.    *)

\* The handlers other than handleCalamity are the same code in part_000 and
\* hero.go but for the inlined select.
ServeAlone(v, r, h, m) ==
    LET n == r.name
        answer(kind) == [roster |-> m, outcome |-> Outcome(kind, n)]
    IN  IF r.op = "handleCalamity" THEN handleCalamityAlone(v, r.calamity, m)
        ELSE IF r.op = "heroMake"
        THEN IF h.Name \in DOMAIN m
             THEN [roster |-> m,
                   outcome |-> IF m[h.Name].Alive
                               THEN Outcome("AlreadyExists", h.Name)
                               ELSE Outcome("NameRetired", h.Name)]
             ELSE [roster |-> MapPut(m, h.Name, [h EXCEPT !.Alive = TRUE]),
                   outcome |-> StatusOK]
        ELSE IF n \notin DOMAIN m THEN answer("NotFound")
        ELSE IF r.op = "heroGet" THEN [roster |-> m, outcome |-> StatusOK]
        ELSE IF r.op = "heroKill"
        THEN IF m[n].Alive # TRUE THEN answer("AlreadyDead")
             ELSE [roster |-> MapPut(m, n, [m[n] EXCEPT !.Alive = FALSE]),
                   outcome |-> StatusOK]
        ELSE IF r.op = "heroRetire"
        THEN IF m[n].Alive # TRUE THEN answer("CannotRetireDead")
             ELSE [roster |-> MapDelete(m, n), outcome |-> StatusOK]
        ELSE IF m[n].Alive = FALSE THEN answer("NotAlive")
        ELSE IF m[n].Exhaustion = 0 THEN answer("NoRestNeeded")
        ELSE [roster |-> MapPut(m, n, [m[n] EXCEPT !.Exhaustion = m[n].Exhaustion - 1]),
              outcome |-> StatusOK]

-----------------------------------------------------------------------------
(* Properties of the operations' contracts *)

\* The names of a list, and whether each is present and alive in a roster
Named(names) == {names[i] : i \in 1..Len(names)}

AllFit(names, m) == \A n \in Named(names) : n \in DOMAIN m /\ m[n].Alive

\* The power levels of a list of present heroes added up, entry by entry
RECURSIVE TotalPower(_, _)
TotalPower(names, m) ==
    IF names = << >> THEN 0
    ELSE m[Head(names)].PowerLevel + TotalPower(Tail(names), m)

\* A list names some hero more than once
Repeats(names) == Cardinality(Named(names)) < Len(names)

\* The power levels of the heroes a list names added up, each hero once
RECURSIVE SetPower(_, _)
SetPower(S, m) ==
    IF S = {} THEN 0
    ELSE LET n == CHOOSE n \in S : TRUE
         IN  m[n].PowerLevel + SetPower(S \ {n}, m)

\* The success rule of the variant applied to a total
RuleHolds(v, required, total) ==
    IF v = "ge" THEN total >= required ELSE total = required

\* What C11 says of a calamity that has the map, on present, alive heroes,
\* given the total power level of the heroes it names
CalamitySuccess(p, total) ==
    LET c == req[p].calamity
        m == before[p]
    IN  /\ outcome[p] \in {StatusOK, Outcome("InsufficientPower", NoName)}
        /\ variant = "ge" => (outcome[p] = StatusOK <=> total >= c.PowerLevel)
        /\ outcome[p] = StatusOK =>
             /\ DOMAIN roster = DOMAIN m
             /\ \A n \in Named(c.Heroes) :
                  /\ roster[n].Exhaustion = m[n].Exhaustion + 1
                  /\ roster[n].Alive <=> roster[n].Exhaustion # maxExhaustion

\* A hero that started fresh is alive with every exhaustion below
\* maxExhaustion and dead with maxExhaustion, which it never exceeds
FreshHeroesWearOut ==
    \A n \in DOMAIN roster :
        initial[n].Exhaustion = 0 =>
            /\ roster[n].Exhaustion \in 0..maxExhaustion
            /\ roster[n].Alive <=> roster[n].Exhaustion < maxExhaustion

\* C11: a calamity on a non-empty list of present, alive heroes succeeds
\* under hero.go's rule exactly when the power levels of the heroes it
\* names, each hero once, add up to the required power level or more, and
\* fails with InsufficientPower otherwise; when it succeeds every named hero
\* has exactly one exhaustion more than when the map was received and is
\* dead exactly if that new exhaustion is maxExhaustion, the call reporting
\* success all the same; so a hero that started fresh is alive with
\* exhaustion 1..9 after its first nine successes and dead with 10 after
\* the tenth.
C11_CalamitySuccess ==
    /\ \A p \in Procs :
        At(p, "handleCalamity", "send") /\ AllFit(req[p].calamity.Heroes, before[p]) =>
            CalamitySuccess(p, SetPower(Named(req[p].calamity.Heroes), before[p]))
    /\ FreshHeroesWearOut

\* C11 with the power levels added up entry by entry, a hero named twice
\* counting twice
C11_CalamitySuccessEachEntry ==
    /\ \A p \in Procs :
        At(p, "handleCalamity", "send") /\ AllFit(req[p].calamity.Heroes, before[p]) =>
            CalamitySuccess(p, TotalPower(req[p].calamity.Heroes, before[p]))
    /\ FreshHeroesWearOut

\* The tenth successful calamity in a row on a hero that started fresh, under
\* hero.go's rule, has just killed it and reports success
C11_Witness ==
    /\ variant = "ge"
    /\ At(1, "handleCalamity", "send")
    /\ outcome[1] = StatusOK
    /\ issued = maxExhaustion
    /\ initial["a"].Exhaustion = 0
    /\ before[1]["a"].Exhaustion = maxExhaustion - 1
    /\ roster["a"].Exhaustion = maxExhaustion
    /\ ~roster["a"].Alive

\* What a GET that had the map answers: the hero as JSON, or not found
Answered(p) ==
    /\ req[p].op = "heroGet"
    /\ pc[p] \in {"send", "done"}
    /\ outcome[p] # resourceNotAvailableErr

\* C12: a GET leaves the map as it received it, whether it finds the hero or
\* not; it answers the record stored under the name when it received the
\* map, field by field, or NotFound when there was none; and two GETs of one
\* name that received equal maps answer the same.
C12_GetReadOnly ==
    /\ \A p \in Procs :
        Answered(p) =>
            LET name == req[p].name
                m == before[p]
            IN  /\ pc[p] = "send" => roster = m
                /\ name \notin DOMAIN m => outcome[p] = Outcome("NotFound", name)
                /\ name \in DOMAIN m =>
                     /\ outcome[p] = StatusOK
                     /\ MarshalHero(hero[p]).PowerLevel = m[name].PowerLevel
                     /\ MarshalHero(hero[p]).Exhaustion = m[name].Exhaustion
                     /\ MarshalHero(hero[p]).Name = m[name].Name
                     /\ MarshalHero(hero[p]).Alive = m[name].Alive
    /\ \A p, q \in Procs :
        /\ Answered(p) /\ Answered(q)
        /\ req[p].name = req[q].name
        /\ before[p] = before[q]
        => /\ outcome[p] = outcome[q]
           /\ MarshalHero(hero[p]) = MarshalHero(hero[q])

\* Two GETs of a hero that is there have both answered it, one still
\* holding the map
C12_Witness ==
    \E p, q \in Procs :
        /\ p # q
        /\ Answered(p) /\ Answered(q)
        /\ pc[p] = "send" /\ pc[q] = "done"
        /\ outcome[p] = StatusOK /\ outcome[q] = StatusOK
        /\ req[p].name = req[q].name
        /\ roster[req[p].name].Alive

\* The first name of a list, left to right, that is absent from a roster or
\* dead in it, and the outcome that names it
Offends(n, m) == n \notin DOMAIN m \/ ~m[n].Alive

FirstOffence(names, m) ==
    LET i == CHOOSE i \in 1..Len(names) :
                 /\ Offends(names[i], m)
                 /\ \A j \in 1..(i - 1) : ~Offends(names[j], m)
    IN  IF names[i] \notin DOMAIN m THEN Outcome("UnknownHero", names[i])
        ELSE Outcome("DeadHero", names[i])

\* No record that was dead at the start, and none that was dead when a
\* request received the map, has changed or gone
DeadFrozen ==
    /\ \A n \in Dead(initial) : n \in DOMAIN roster /\ roster[n] = initial[n]
    /\ \A p \in Procs :
        pc[p] = "send" =>
            \A n \in Dead(before[p]) : n \in DOMAIN roster /\ roster[n] = before[p][n]

\* A request on one name that had the map while the record was dead is
\* refused with its operation's outcome
DeadRefused(p, n) ==
    /\ At(p, "heroRest", "send") /\ req[p].name = n
         => outcome[p] = Outcome("NotAlive", n)
    /\ At(p, "heroKill", "send") /\ req[p].name = n
         => outcome[p] = Outcome("AlreadyDead", n)
    /\ At(p, "heroRetire", "send") /\ req[p].name = n
         => outcome[p] = Outcome("CannotRetireDead", n)
    /\ At(p, "heroMake", "send") /\ hero[p].Name = n
         => outcome[p] = Outcome("NameRetired", n)

\* C13 as stated: dead records never change or go, and a rest, kill,
\* retire, create or calamity naming a dead hero fails with NotAlive,
\* AlreadyDead, CannotRetireDead, NameRetired, DeadHero respectively.
C13_DeadIsTerminal ==
    /\ DeadFrozen
    /\ \A p \in Procs : \A n \in Dead(before[p]) :
        /\ DeadRefused(p, n)
        /\ At(p, "handleCalamity", "send") /\ n \in Named(req[p].calamity.Heroes)
             => outcome[p].kind = "DeadHero"

\* C13, amended: dead records never change or go, and a rest, kill, retire
\* or create that has the map and names a dead hero fails with NotAlive,
\* AlreadyDead, CannotRetireDead, NameRetired respectively; a calamity that
\* has the map and names a dead hero fails with the outcome of the first
\* name of its list that is absent or dead: DeadHero, or UnknownHero when an
\* absent name comes before every dead one.
C13_DeadIsTerminalFirstOffence ==
    /\ DeadFrozen
    /\ \A p \in Procs : \A n \in Dead(before[p]) :
        /\ DeadRefused(p, n)
        /\ At(p, "handleCalamity", "send") /\ n \in Named(req[p].calamity.Heroes)
             => /\ outcome[p] = FirstOffence(req[p].calamity.Heroes, before[p])
                /\ outcome[p].kind \in {"DeadHero", "UnknownHero"}

\* A calamity lists an absent name before a dead hero and is refused for
\* the absent one, the dead record being as it was
C13_Witness ==
    \E p \in Procs :
        /\ At(p, "handleCalamity", "send")
        /\ req[p].calamity.Heroes = <<"b", "a">>
        /\ "b" \notin DOMAIN before[p]
        /\ "a" \in Dead(before[p])
        /\ outcome[p] = Outcome("UnknownHero", "b")
        /\ roster["a"] = before[p]["a"]

\* A roster is another with one name's record taken out and the rest as is
Without(m2, m, n) ==
    /\ DOMAIN m2 = DOMAIN m \ {n}
    /\ \A k \in DOMAIN m2 : m2[k] = m[k]

\* What the retire part of C14 says of a retire that has the map
RetireContract(p) ==
    LET n == req[p].name
        m == before[p]
    IN  /\ n \notin DOMAIN m =>
             outcome[p] = Outcome("NotFound", n) /\ roster = m
        /\ n \in DOMAIN m /\ ~m[n].Alive =>
             outcome[p] = Outcome("CannotRetireDead", n) /\ roster = m
        /\ n \in DOMAIN m /\ m[n].Alive =>
             outcome[p] = StatusOK /\ Without(roster, m, n)

\* A create that has the map finds the name of a retired hero free and
\* puts its own hero there, alive
CreateAfterRetire(p) ==
    LET n == hero[p].Name
    IN  n \in DOMAIN initial /\ n \notin DOMAIN before[p] =>
            /\ outcome[p] = StatusOK
            /\ n \in DOMAIN roster
            /\ roster[n].Name = n
            /\ roster[n].Alive
            /\ roster[n].PowerLevel = hero[p].PowerLevel

\* C14: a retire of a present, alive hero takes its record out of the
\* roster and leaves the rest, so that a later create of the name succeeds
\* and puts a fresh hero there (alive, exhaustion 0, the create's power
\* level); a retire of an absent name answers NotFound and one of a dead
\* hero CannotRetireDead, both leaving the roster as it was.
C14_RetireContract ==
    \A p \in Procs :
        /\ At(p, "heroRetire", "send") => RetireContract(p)
        /\ At(p, "heroMake", "send") =>
             /\ CreateAfterRetire(p)
             /\ hero[p].Name \in DOMAIN initial /\ hero[p].Name \notin DOMAIN before[p]
                  => roster[hero[p].Name].Exhaustion = 0

\* C14 without the fresh hero's exhaustion
C14_RetireFreesName ==
    \A p \in Procs :
        /\ At(p, "heroRetire", "send") => RetireContract(p)
        /\ At(p, "heroMake", "send") => CreateAfterRetire(p)

\* The hero a rest names was present and alive when the rest received the map
Restable(p) ==
    /\ req[p].name \in DOMAIN before[p]
    /\ before[p][req[p].name].Alive

\* What C15 says of a rest that has the map, given whether the hero is one
\* to be rested
RestContract(p, rests) ==
    LET n == req[p].name
        m == before[p]
    IN  /\ outcome[p] = StatusOK <=> rests
        /\ rests =>
             /\ DOMAIN roster = DOMAIN m
             /\ roster[n] = [m[n] EXCEPT !.Exhaustion = m[n].Exhaustion - 1]
             /\ \A k \in DOMAIN m \ {n} : roster[k] = m[k]
        /\ ~rests =>
             /\ roster = m
             /\ outcome[p] = IF n \notin DOMAIN m THEN Outcome("NotFound", n)
                             ELSE IF ~m[n].Alive THEN Outcome("NotAlive", n)
                             ELSE Outcome("NoRestNeeded", n)

\* C15: a rest takes exactly 1 off the hero's exhaustion and changes nothing
\* else if and only if the hero is present, alive and has exhaustion > 0;
\* otherwise the roster stays as it was and the outcome is NotFound for an
\* absent name, else NotAlive for a dead hero whatever its exhaustion, else
\* NoRestNeeded.
C15_RestContract ==
    \A p \in Procs :
        At(p, "heroRest", "send") =>
            RestContract(p, Restable(p) /\ before[p][req[p].name].Exhaustion > 0)

\* C15 with "exhaustion > 0" read as "exhaustion other than 0"
C15_RestUnlessZero ==
    \A p \in Procs :
        At(p, "heroRest", "send") =>
            RestContract(p, Restable(p) /\ before[p][req[p].name].Exhaustion # 0)

\* C16: a kill of a present, alive hero answers OK and makes the record
\* dead, its exhaustion, power level and name and every other record staying
\* as they were; a kill of an absent name answers NotFound and one of a dead
\* hero AlreadyDead, the roster staying as it was; and once a hero is dead a
\* rest of it answers NotAlive and a create of its name NameRetired, without
\* a change to the roster.
C16_KillContract ==
    \A p \in Procs :
        /\ At(p, "heroKill", "send") =>
             LET n == req[p].name
                 m == before[p]
             IN  /\ n \notin DOMAIN m =>
                      outcome[p] = Outcome("NotFound", n) /\ roster = m
                 /\ n \in DOMAIN m /\ ~m[n].Alive =>
                      outcome[p] = Outcome("AlreadyDead", n) /\ roster = m
                 /\ n \in DOMAIN m /\ m[n].Alive =>
                      /\ outcome[p] = StatusOK
                      /\ DOMAIN roster = DOMAIN m
                      /\ ~roster[n].Alive
                      /\ roster[n].Exhaustion = m[n].Exhaustion
                      /\ roster[n].PowerLevel = m[n].PowerLevel
                      /\ roster[n].Name = m[n].Name
                      /\ \A k \in DOMAIN m \ {n} : roster[k] = m[k]
        /\ At(p, "heroRest", "send") /\ req[p].name \in Dead(before[p]) =>
             outcome[p] = Outcome("NotAlive", req[p].name) /\ roster = before[p]
        /\ At(p, "heroMake", "send") /\ hero[p].Name \in Dead(before[p]) =>
             outcome[p] = Outcome("NameRetired", hero[p].Name) /\ roster = before[p]

\* A hero that started alive was killed by the first request, short of
\* maxExhaustion, and the second request, a rest of it, is refused
C16_Witness ==
    \E p \in Procs :
        /\ At(p, "heroRest", "send")
        /\ issued = 2
        /\ req[p].name = "a"
        /\ "a" \in DOMAIN initial
        /\ initial["a"].Alive
        /\ "a" \in Dead(before[p])
        /\ before[p]["a"].Exhaustion = maxExhaustion - 3
        /\ outcome[p] = Outcome("NotAlive", "a")

\* C17: a calamity that has the map and names a hero that is absent or dead
\* answers for the first such name of its list, left to right -- UnknownHero
\* if it is absent, DeadHero if it is dead -- whatever the power levels are,
\* never InsufficientPower, and leaves the roster as it received it.
C17_ValidationOrder ==
    \A p \in Procs :
        At(p, "handleCalamity", "send") /\ ~AllFit(req[p].calamity.Heroes, before[p]) =>
            /\ outcome[p] = FirstOffence(req[p].calamity.Heroes, before[p])
            /\ outcome[p] # Outcome("InsufficientPower", NoName)
            /\ roster = before[p]

\* A calamity asks more power than the roster has of a dead hero and then
\* an absent name, and is refused for the dead hero
C17_Witness ==
    \E p \in Procs :
        /\ At(p, "handleCalamity", "send")
        /\ req[p].calamity.Heroes = <<"b", "a">>
        /\ req[p].calamity.PowerLevel = 3
        /\ "b" \in Dead(before[p])
        /\ "a" \notin DOMAIN before[p]
        /\ outcome[p] = Outcome("DeadHero", "b")

\* A request is a calamity with no heroes
EmptyCalamity(r) == r.op = "handleCalamity" /\ r.calamity.Heroes = << >>

\* C18: a calamity with an empty list of heroes has its answer,
\* EmptyHeroList, the moment it arrives, whoever holds the map: it never
\* waits for the map nor has it, and neither its arrival nor its return
\* changes the roster, the channel or who holds the map.
C18_EmptyListSkipsStore ==
    /\ [](\A p \in Procs :
            EmptyCalamity(req[p]) =>
                /\ pc[p] = "done"
                /\ outcome[p] = Outcome("EmptyHeroList", NoName)
                /\ mapOfHeroes[p] = Nil)
    /\ [][\A p \in Procs :
            Steps(p) /\ (EmptyCalamity(req[p]) \/ EmptyCalamity(req'[p])) =>
                /\ roster' = roster
                /\ heroMapChannel' = heroMapChannel
                /\ mapOfHeroes' = mapOfHeroes]_vars

\* A calamity with an empty list has its answer while another request holds
\* the map and the channel is empty
C18_Witness ==
    \E p, q \in Procs :
        /\ EmptyCalamity(req[p])
        /\ outcome[p] = Outcome("EmptyHeroList", NoName)
        /\ Holds(q)
        /\ heroMapChannel = << >>

\* A create whose body lacked "Name" or "PowerLevel": the bodies that carry
\* them carry a non-empty name and a positive power level, so the decoded
\* hero has "" or 0 there exactly if the member was missing
LacksField(p) ==
    /\ req[p].op = "heroMake"
    /\ hero[p].Name = NoName \/ hero[p].PowerLevel = 0

\* C19: a create whose body lacks the name or the power level is refused
\* before the map is asked for -- it never waits for the map, has it or
\* answers OK -- and the roster never has a record under the empty name nor
\* one more record than it started with that has no power level.
C19_InputValidation ==
    /\ \A p \in Procs :
        LacksField(p) =>
            /\ pc[p] = "done"
            /\ mapOfHeroes[p] = Nil
            /\ outcome[p] \notin {NoOutcome, StatusOK, resourceNotAvailableErr}
    /\ NoName \notin DOMAIN roster
    /\ \A n \in DOMAIN roster \ DOMAIN initial : roster[n].PowerLevel # 0

\* The empty name alone: no record is ever stored under it
C19_NoEmptyName == NoName \notin DOMAIN roster

\* The creates that had the map and have their answer
Created == {p \in Procs : /\ req[p].op = "heroMake"
                          /\ pc[p] \in {"send", "done"}
                          /\ outcome[p] # resourceNotAvailableErr}

\* C20: of the concurrent creates of one absent, never dead name that had
\* the map, exactly one has answered OK and every other AlreadyExists for the
\* name, and the record under the name is alive with the power level of the
\* create that answered OK.
C20_OneCreateWins ==
    Created # {} =>
        /\ Cardinality({p \in Created : outcome[p] = StatusOK}) = 1
        /\ \A p \in Created :
             /\ outcome[p] \in {StatusOK, Outcome("AlreadyExists", hero[p].Name)}
             /\ outcome[p] = StatusOK =>
                  /\ hero[p].Name \in DOMAIN roster
                  /\ roster[hero[p].Name].Alive
                  /\ roster[hero[p].Name].PowerLevel = hero[p].PowerLevel

\* Every goroutine's create of "a" has had the map, two of them with
\* different power levels: one answered OK, the other AlreadyExists
C20_Witness ==
    /\ Created = Procs
    /\ \E p, q \in Procs :
        /\ hero[p].Name = hero[q].Name
        /\ hero[p].PowerLevel # hero[q].PowerLevel
        /\ outcome[p] = StatusOK
        /\ outcome[q] = Outcome("AlreadyExists", hero[q].Name)
        /\ roster[hero[p].Name].PowerLevel = hero[p].PowerLevel

\* A calamity that had the map, on present, alive heroes, one named twice
RepeatedCalamity(p) ==
    /\ At(p, "handleCalamity", "send")
    /\ Repeats(req[p].calamity.Heroes)
    /\ AllFit(req[p].calamity.Heroes, before[p])

\* C21: when a calamity names an alive hero more than once, it succeeds
\* exactly when the variant's rule holds of the power levels of the distinct
\* named heroes added up, each hero counted once; and when it succeeds that
\* hero has exactly one exhaustion more than before.
C21_DuplicatesCountOnce ==
    \A p \in Procs :
        RepeatedCalamity(p) =>
            /\ outcome[p] = StatusOK <=>
                 RuleHolds(variant, req[p].calamity.PowerLevel,
                           SetPower(Named(req[p].calamity.Heroes), before[p]))
            /\ outcome[p] = StatusOK =>
                 \A n \in Named(req[p].calamity.Heroes) :
                     roster[n].Exhaustion = before[p][n].Exhaustion + 1

\* C21 with every entry of the list counted, and the exhaustion as claimed
C21_DuplicatesCountEach ==
    \A p \in Procs :
        RepeatedCalamity(p) =>
            /\ outcome[p] = StatusOK <=>
                 RuleHolds(variant, req[p].calamity.PowerLevel,
                           TotalPower(req[p].calamity.Heroes, before[p]))
            /\ outcome[p] = StatusOK =>
                 \A n \in Named(req[p].calamity.Heroes) :
                     roster[n].Exhaustion = before[p][n].Exhaustion + 1

\* The names a request that has the map may touch: the one it names, or
\* those of its calamity's list
Touched(p) ==
    IF req[p].op = "handleCalamity" THEN Named(req[p].calamity.Heroes)
    ELSE IF req[p].op = "heroMake" THEN {hero[p].Name}
    ELSE {req[p].name}

\* C22: when a request that had the map is about to send it back, every
\* name it does not name is in the roster exactly if it was when the map was
\* received, with the same record; every record that is still in the roster
\* has the power level it had; and the roster has lost a name only to a
\* retire of that name and gained one only from a create of that name.
C22_Frame ==
    \A p \in Procs :
        pc[p] = "send" =>
            /\ \A k \in (DOMAIN before[p] \cup DOMAIN roster) \ Touched(p) :
                 /\ k \in DOMAIN before[p]
                 /\ k \in DOMAIN roster
                 /\ roster[k] = before[p][k]
            /\ \A k \in DOMAIN before[p] \cap DOMAIN roster :
                 roster[k].PowerLevel = before[p][k].PowerLevel
            /\ DOMAIN before[p] \ DOMAIN roster # {} =>
                 /\ req[p].op = "heroRetire"
                 /\ DOMAIN before[p] \ DOMAIN roster = {req[p].name}
            /\ DOMAIN roster \ DOMAIN before[p] # {} =>
                 /\ req[p].op = "heroMake"
                 /\ DOMAIN roster \ DOMAIN before[p] = {hero[p].Name}

\* A calamity on "a" alone has succeeded and exhausted it, with "b" alive in
\* the roster and as it was
C22_Witness ==
    \E p \in Procs :
        /\ At(p, "handleCalamity", "send")
        /\ outcome[p] = StatusOK
        /\ req[p].calamity.Heroes = <<"a">>
        /\ "b" \in DOMAIN before[p]
        /\ before[p]["b"].Alive
        /\ roster["b"] = before[p]["b"]
        /\ roster["a"].Exhaustion = before[p]["a"].Exhaustion + 1
        /\ roster["a"].PowerLevel = before[p]["a"].PowerLevel

\* C23: every record of the roster is stored under the key that is its own
\* Name; so the heroes a calamity has compiled carry the names of its list,
\* and when it is about to send the map back the roster has exactly the keys
\* it had when the map was received: the write-back put no record under a
\* new key and brought no retired name back.
C23_KeyIsName ==
    /\ \A k \in DOMAIN roster : roster[k].Name = k
    /\ \A p \in Procs :
        At(p, "handleCalamity", "send") =>
            /\ DOMAIN roster = DOMAIN before[p]
            /\ outcome[p] = StatusOK =>
                 /\ Len(heroesForCalamity[p]) = Len(req[p].calamity.Heroes)
                 /\ \A i \in 1..Len(heroesForCalamity[p]) :
                      heroesForCalamity[p][i].Name = req[p].calamity.Heroes[i]

\* A calamity on both heroes has written them back after "a" was retired and
\* created again: the roster has the two keys it had, each with its own name
C23_Witness ==
    \E p \in Procs :
        /\ At(p, "handleCalamity", "send")
        /\ outcome[p] = StatusOK
        /\ req[p].calamity.Heroes = <<"a", "b">>
        /\ issued = 3
        /\ "a" \in DOMAIN initial
        /\ roster["a"].PowerLevel # initial["a"].PowerLevel
        /\ DOMAIN roster = {"a", "b"}
        /\ roster["a"].Name = "a" /\ roster["b"].Name = "b"

\* What the given variant leaves and answers to the request of p on the
\* roster p received: what the service did if it runs that variant, what
\* the handler of the other variant does on the same roster if not
SideBySide(v, p) ==
    IF variant = v THEN [roster |-> roster, outcome |-> outcome[p]]
    ELSE ServeAlone(v, req[p], hero[p], before[p])

\* What C24 says of the request of p, given whether it is a calamity whose
\* heroes have more power in total than it requires
VariantsAgree(p, overpowered) ==
    /\ pc[p] = "send" =>
         LET ge == SideBySide("ge", p)
             eq == SideBySide("eq", p)
         IN  IF overpowered
             THEN /\ ge.outcome = StatusOK
                  /\ ge.roster # before[p]
                  /\ eq.outcome = Outcome("InsufficientPower", NoName)
                  /\ eq.roster = before[p]
             ELSE /\ ge.outcome.kind = eq.outcome.kind
                  /\ ge.roster = eq.roster
    /\ EmptyCalamity(req[p]) =>
         \A v \in Variants :
             /\ ServeAlone(v, req[p], hero[p], roster).outcome = outcome[p]
             /\ ServeAlone(v, req[p], hero[p], roster).roster = roster

\* The request of p is a calamity on present, alive heroes
FitCalamity(p) ==
    /\ req[p].op = "handleCalamity"
    /\ Len(req[p].calamity.Heroes) >= 1
    /\ AllFit(req[p].calamity.Heroes, before[p])

\* C24: on the same roster and the same request, hero.go and part_000
\* answer with the same kind of outcome and leave the same roster, unless
\* the request is a calamity whose heroes, each counted once, have more
\* power in total than it requires: then hero.go succeeds and changes the
\* roster, and part_000 fails with InsufficientPower and leaves the roster as
\* it was.  So, run side by side from empty rosters on one sequence of
\* requests, the two agree after every step up to the first such calamity.
C24_VariantsAgree ==
    \A p \in Procs :
        VariantsAgree(p, /\ FitCalamity(p)
                         /\ SetPower(Named(req[p].calamity.Heroes), before[p])
                              > req[p].calamity.PowerLevel)

\* C24 with the power levels added up entry by entry, a hero named twice
\* counting twice
C24_VariantsAgreeEachEntry ==
    \A p \in Procs :
        VariantsAgree(p, /\ FitCalamity(p)
                         /\ TotalPower(req[p].calamity.Heroes, before[p])
                              > req[p].calamity.PowerLevel)

\* From the empty roster a create and then a calamity that its hero
\* overpowers: hero.go has succeeded where part_000 fails
C24_Witness ==
    \E p \in Procs :
        /\ variant = "ge"
        /\ initial = EmptyMap
        /\ issued = 2
        /\ At(p, "handleCalamity", "send")
        /\ FitCalamity(p)
        /\ outcome[p] = StatusOK
        /\ SideBySide("eq", p).outcome.kind = "InsufficientPower"

====
